---- MODULE Spec2Model ----
(***************************************************************************)
(* Model of nanobot/api/server.py: NanobotAPIServer, the HTTP facade over  *)
(* the agent (POST /api/chat, GET /health, start, stop).                   *)
(*                                                                         *)
(* Python / JSON values are tagged records.  A request body is either text *)
(* that json.loads rejects (Bad) or a parsed document (Doc).  The agent's  *)
(* process_direct is the injected collaborator: it returns a value or      *)
(* raises an Exception, chosen nondeterministically when the awaiting      *)
(* handler is resumed.                                                     *)
(***************************************************************************)
EXTENDS Integers, Sequences, FiniteSets, Bags, TLC

VARIABLES
    app,          \* self._app    : 0 is None, n > 0 the n-th Application created
    runner,       \* self._runner : 0 is None, n > 0 the n-th AppRunner created
    site,         \* self._site   : 0 is None, n > 0 the n-th TCPSite created
    listening,    \* runners whose site holds the listening socket on host:port
    cleaned,      \* runners on which cleanup() has completed
    startResult,  \* how the last start() ended: "none", "ok" or the exception
    inflight,     \* bag of chat handlers suspended in `await process_direct`
    resp,         \* outcome of the handler that finished last
    failed        \* history of answers 500: "never"; "overlapping", when a handler
                  \* now suspended may have been received before the failure;
                  \* "earlier", when every handler now suspended was received after it

vars == <<app, runner, site, listening, cleaned, startResult, inflight, resp, failed>>

server == <<app, runner, site, listening, cleaned, startResult>>

(***************************************************************************)
(* Bounds of the model.                                                    *)
(***************************************************************************)
MaxStarts == 2      \* start() calls explored
MaxInFlight == 2    \* chat handlers suspended at the same time

(***************************************************************************)
(* Values.                                                                 *)
(***************************************************************************)
Absent == [t |-> "absent"]                 \* the key is not in the dict
None == [t |-> "null"]                     \* JSON null / Python None
Str(s) == [t |-> "str", s |-> s]
Num(n) == [t |-> "num", n |-> n]
Bool(b) == [t |-> "bool", b |-> b]
List(n) == [t |-> "list", len |-> n]       \* a JSON array of n elements

Obj(m, s, c, i) ==
    [t |-> "object", message |-> m, session_id |-> s, channel |-> c, chat_id |-> i]

Bad(detail) == [json |-> FALSE, detail |-> detail]
Doc(v) == [json |-> TRUE, data |-> v]

\* Mutant: the test `is not None` in place of the truth value.
TruthyIsNotNone(v) == v.t # "null"

\* Python truth value (`not message`, `response or ""`).
Truthy(v) ==
    CASE v.t = "null" -> FALSE
      [] v.t = "str" -> Len(v.s) > 0
      [] v.t = "num" -> v.n # 0
      [] v.t = "bool" -> v.b
      [] v.t = "list" -> v.len > 0
      [] OTHER -> TRUE

\* message[:50]: defined for str and list, TypeError for int and bool.
Sliceable(v) == v.t \in {"str", "list"}

\* Mutant: `data.get(key) or default`, which also replaces falsy values.
GetOrDefault(data, key, default) ==
    IF data[key] = Absent \/ ~Truthy(data[key]) THEN default ELSE data[key]

\* data.get(key, default)
Get(data, key, default) == IF data[key] = Absent THEN default ELSE data[key]

(***************************************************************************)
(* What a handler hands back to aiohttp.                                   *)
(***************************************************************************)
JsonResponse(body, status) ==
    [kind |-> "response", status |-> status, body |-> body, exc |-> ""]

\* An exception leaving the handler (aiohttp then answers a plain 500).
Raised(exc) ==
    [kind |-> "raised", status |-> 0, body |-> [error |-> ""], exc |-> exc]

\* Mutant: the decoder's message without the "Invalid JSON: " prefix.
ParseFailureBare(e) == JsonResponse([error |-> e], 400)

ParseFailure(e) == JsonResponse([error |-> "Invalid JSON: " \o e], 400)

MissingMessage == JsonResponse([error |-> "Missing 'message' field"], 400)

\* Mutant: the default session id echoed in place of the request's.
ChatOkDefaultSession(response, session_id) ==
    JsonResponse([response |-> IF Truthy(response) THEN response ELSE Str(""),
                  session_id |-> Str("api:default")], 200)

ChatOk(response, session_id) ==
    JsonResponse([response |-> IF Truthy(response) THEN response ELSE Str(""),
                  session_id |-> session_id], 200)

UpstreamError(e) == JsonResponse([error |-> e], 500)

HealthOk == JsonResponse([status |-> "ok"], 200)

(***************************************************************************)
(* _handle_chat up to the await of process_direct.                         *)
(***************************************************************************)
CallArgs(data) ==
    [content |-> Get(data, "message", None),
     session_key |-> Get(data, "session_id", Str("api:default")),
     channel |-> Get(data, "channel", Str("api")),
     chat_id |-> Get(data, "chat_id", Str("default"))]

NoArgs == [content |-> None, session_key |-> None, channel |-> None, chat_id |-> None]

\* The handler's result when it ends before the processor is called, or
\* "call" when it reaches the await.
Validate(req) ==
    IF ~req.json THEN ParseFailure(req.detail)
    ELSE IF req.data.t # "object" THEN Raised("AttributeError")
    ELSE IF ~Truthy(Get(req.data, "message", None)) THEN MissingMessage
    ELSE IF ~Sliceable(Get(req.data, "message", None)) THEN Raised("TypeError")
    ELSE [kind |-> "call", status |-> 0, body |-> [error |-> ""], exc |-> ""]

(***************************************************************************)
(* Inputs.                                                                 *)
(***************************************************************************)
Messages ==
    {Absent, None, Str(""), Str("Hello!"), Num(0), Num(5), Bool(TRUE), List(0), List(1)}

Options ==
    {<<Absent, Absent, Absent>>,
     <<Str("voice:device123"), Str("voice"), Str("device123")>>,
     <<None, Str("voice"), Absent>>,
     <<Str(""), Absent, Str("device123")>>}

Requests ==
    {Bad("Expecting value: line 1 column 1 (char 0)")}
    \cup {Doc(v) : v \in {None, Str("Hello!"), List(1)}}
    \cup {Doc(Obj(m, Absent, Absent, Absent)) : m \in Messages}
    \cup {Doc(Obj(m, o[1], o[2], o[3])) : m \in {Absent, Str("Hello!")}, o \in Options}

\* What process_direct can do: return a str (or None), or raise.
Returns(v) == [kind |-> "returns", value |-> v, msg |-> ""]
Raises(msg) == [kind |-> "raises", value |-> None, msg |-> msg]
NoOutcome == [kind |-> "none", value |-> None, msg |-> ""]

Outcomes ==
    {Returns(Str("Hi there!")), Returns(Str("")), Raises("agent unavailable")}

(***************************************************************************)
(* Records of the handlers.                                                *)
(***************************************************************************)
NoResp == [route |-> "none"]

ChatResult(req, result, calls, args, outcome, afterFail) ==
    [route |-> "chat", req |-> req, kind |-> result.kind, status |-> result.status,
     body |-> result.body, exc |-> result.exc, calls |-> calls, args |-> args,
     outcome |-> outcome, afterFail |-> afterFail]

HealthResult(result) ==
    [route |-> "health", kind |-> result.kind, status |-> result.status,
     body |-> result.body]

Suspended(req) ==
    [req |-> req, args |-> CallArgs(req.data), calls |-> 1]

\* The history of failures once the handlers in `left` are the suspended ones.
Settle(f, left) == IF f = "overlapping" /\ left = EmptyBag THEN "earlier" ELSE f

Init ==
    /\ app = 0
    /\ runner = 0
    /\ site = 0
    /\ listening = {}
    /\ cleaned = {}
    /\ startResult = "none"
    /\ inflight = EmptyBag
    /\ resp = NoResp
    /\ failed = "never"

(***************************************************************************)
(* start(): a new Application, AppRunner and TCPSite replace the ones the  *)
(* gateway holds; binding host:port fails with OSError while another       *)
(* listener holds it.                                                      *)
(***************************************************************************)
Start ==
    /\ runner < MaxStarts
    /\ app' = runner + 1
    /\ runner' = runner + 1
    /\ site' = runner + 1
    /\ IF listening = {}
       THEN listening' = {runner + 1} /\ startResult' = "ok"
       ELSE listening' = listening /\ startResult' = "OSError"
    /\ UNCHANGED <<cleaned, inflight, resp, failed>>

(***************************************************************************)
(* stop(): cleanup() of the runner the gateway holds, if any.  Its site is *)
(* closed and the handlers still running on its connections are cancelled  *)
(* (those that finished before are the drained ones).                      *)
(***************************************************************************)
Stop ==
    IF runner # 0
    THEN /\ cleaned' = cleaned \cup {runner}
         /\ listening' = listening \ {runner}
         /\ inflight' = IF runner \in listening THEN EmptyBag ELSE inflight
         /\ failed' = Settle(failed, inflight')
         /\ UNCHANGED <<app, runner, site, startResult, resp>>
    ELSE UNCHANGED vars

(***************************************************************************)
(* POST /api/chat                                                          *)
(***************************************************************************)
\* The handler ends before the processor is called.
HandleChatEarly ==
    /\ listening # {}
    /\ \E req \in Requests :
          /\ Validate(req).kind # "call"
          /\ resp' = ChatResult(req, Validate(req), 0, NoArgs, NoOutcome, failed = "earlier")
    /\ UNCHANGED <<server, inflight, failed>>

\* The handler calls process_direct and is suspended.
HandleChatCall ==
    /\ listening # {}
    /\ BagCardinality(inflight) < MaxInFlight
    /\ \E req \in Requests :
          /\ Validate(req).kind = "call"
          /\ inflight' = inflight (+) SetToBag({Suspended(req)})
    /\ UNCHANGED <<server, resp, failed>>

\* process_direct returns.
ProcessorReturns ==
    /\ \E c \in BagToSet(inflight), o \in Outcomes :
          /\ o.kind = "returns"
          /\ inflight' = inflight (-) SetToBag({c})
          /\ resp' = ChatResult(c.req, ChatOk(o.value, c.args.session_key),
                                c.calls, c.args, o, failed = "earlier")
    /\ failed' = Settle(failed, inflight')
    /\ UNCHANGED server

\* Mutant: a failed call is made once more before the handler gives up.
ProcessorRaisesRetry ==
    /\ \E c \in BagToSet(inflight), o \in Outcomes :
          /\ o.kind = "raises"
          /\ IF c.calls < 2
             THEN /\ inflight' = (inflight (-) SetToBag({c}))
                                    (+) SetToBag({[c EXCEPT !.calls = c.calls + 1]})
                  /\ UNCHANGED <<resp, failed>>
             ELSE /\ inflight' = inflight (-) SetToBag({c})
                  /\ resp' = ChatResult(c.req, UpstreamError(o.msg),
                                        c.calls, c.args, o, failed = "earlier")
                  /\ failed' = IF failed = "earlier" \/ inflight' = EmptyBag
                               THEN "earlier" ELSE "overlapping"
    /\ UNCHANGED server

\* Mutant: the failure leaves the handler and takes the listener down.
ProcessorRaisesCrash ==
    /\ \E c \in BagToSet(inflight), o \in Outcomes :
          /\ o.kind = "raises"
          /\ inflight' = inflight (-) SetToBag({c})
          /\ resp' = ChatResult(c.req, Raised("Exception"),
                                c.calls, c.args, o, failed = "earlier")
    /\ failed' = IF failed = "earlier" \/ inflight' = EmptyBag
                 THEN "earlier" ELSE "overlapping"
    /\ listening' = {}
    /\ UNCHANGED <<app, runner, site, cleaned, startResult>>

\* process_direct raises.
ProcessorRaises ==
    /\ \E c \in BagToSet(inflight), o \in Outcomes :
          /\ o.kind = "raises"
          /\ inflight' = inflight (-) SetToBag({c})
          /\ resp' = ChatResult(c.req, UpstreamError(o.msg),
                                c.calls, c.args, o, failed = "earlier")
    /\ failed' = IF failed = "earlier" \/ inflight' = EmptyBag
                 THEN "earlier" ELSE "overlapping"
    /\ UNCHANGED server

(***************************************************************************)
(* GET /health                                                             *)
(***************************************************************************)
\* Mutant: the health check reports the suspended chat handlers.
HandleHealthBusy ==
    /\ listening # {}
    /\ resp' = HealthResult(IF inflight = EmptyBag
                            THEN HealthOk
                            ELSE JsonResponse([status |-> "busy"], 503))
    /\ UNCHANGED <<server, inflight, failed>>

HandleHealth ==
    /\ listening # {}
    /\ resp' = HealthResult(HealthOk)
    /\ UNCHANGED <<server, inflight, failed>>

Next ==
    \/ Start
    \/ Stop
    \/ HandleChatEarly
    \/ HandleChatCall
    \/ ProcessorReturns
    \/ ProcessorRaises
    \/ HandleHealth

Spec == Init /\ [][Next]_vars

(***************************************************************************)
(* The requests and values the properties speak of.                        *)
(***************************************************************************)
IsObject(req) == req.json /\ req.data.t = "object"

\* A JSON object whose `message` is a non-empty string.
ValidChat(req) ==
    /\ IsObject(req)
    /\ req.data.message.t = "str"
    /\ Len(req.data.message.s) > 0

\* A JSON object with no `message`, or an empty one.
NoMessage(req) ==
    /\ IsObject(req)
    /\ req.data.message \in {Absent, None, Str(""), Num(0), List(0)}

\* The value the request supplies for `key`, or `default` when it has none.
Supplied(req, key, default) ==
    IF req.data[key] \in {Absent} THEN default ELSE req.data[key]

ExpectedArgs(req) ==
    [content |-> req.data.message,
     session_key |-> Supplied(req, "session_id", Str("api:default")),
     channel |-> Supplied(req, "channel", Str("api")),
     chat_id |-> Supplied(req, "chat_id", Str("default"))]

StartsWith(s, p) == Len(s) >= Len(p) /\ SubSeq(s, 1, Len(p)) = p

IsJsonResponse(r) == r.kind = "response" /\ r.status \in {200, 400, 500}

(***************************************************************************)
(* C1.  As stated: every chat request whose body is valid JSON with a      *)
(* non-empty `message` is answered 200 with the request's session_id, or   *)
(* "api:default" when the request omits it.                                *)
(***************************************************************************)
C1_AlwaysOk ==
    (resp.route = "chat" /\ ValidChat(resp.req))
        => /\ resp.kind = "response"
           /\ resp.status = 200
           /\ resp.body.session_id = Supplied(resp.req, "session_id", Str("api:default"))

(***************************************************************************)
(* C1, amended: every chat request whose body is a JSON object with a      *)
(* non-empty string `message`, and for which the processor returns, is     *)
(* answered 200 with the request's session_id, or "api:default" when the   *)
(* request omits it.                                                       *)
(***************************************************************************)
C1_OkWhenProcessorReturns ==
    (resp.route = "chat" /\ ValidChat(resp.req) /\ resp.outcome.kind # "raises")
        => /\ resp.kind = "response"
           /\ resp.status = 200
           /\ resp.outcome.kind = "returns"
           /\ resp.body.session_id = Supplied(resp.req, "session_id", Str("api:default"))

C1_Witness ==
    /\ resp.route = "chat"
    /\ ValidChat(resp.req)
    /\ resp.status = 200
    /\ resp.req.data.session_id = Str("voice:device123")
    /\ resp.body.session_id = Str("voice:device123")

(***************************************************************************)
(* C2.  Every finished chat handler returned a JSON response with status   *)
(* 200, 400 or 500; no exception left the handler.                         *)
(***************************************************************************)
C2_NoEscape == resp.route = "chat" => IsJsonResponse(resp)

(***************************************************************************)
(* C3.  A body that is not valid JSON is answered 400 with an error text   *)
(* that starts with "Invalid JSON", and the processor is not called for    *)
(* it: no handler of such a request is ever suspended in the call.         *)
(***************************************************************************)
C3_InvalidJson ==
    /\ (resp.route = "chat" /\ ~resp.req.json)
          => /\ resp.kind = "response"
             /\ resp.status = 400
             /\ StartsWith(resp.body.error, "Invalid JSON")
             /\ resp.calls = 0
    /\ \A c \in BagToSet(inflight) : c.req.json

C3_Witness == resp.route = "chat" /\ ~resp.req.json /\ resp.status = 400

(***************************************************************************)
(* C4.  A JSON object with no `message`, or an empty one, is answered 400  *)
(* with exactly {"error": "Missing 'message' field"} whatever its other    *)
(* fields, and the processor is not called for it.                         *)
(***************************************************************************)
C4_MissingMessage ==
    /\ (resp.route = "chat" /\ NoMessage(resp.req))
          => /\ resp.kind = "response"
             /\ resp.status = 400
             /\ resp.body = [error |-> "Missing 'message' field"]
             /\ resp.calls = 0
    /\ \A c \in BagToSet(inflight) : ~NoMessage(c.req)

C4_Witness ==
    /\ resp.route = "chat"
    /\ NoMessage(resp.req)
    /\ resp.req.data.message = Absent
    /\ resp.req.data.session_id = Str("voice:device123")
    /\ resp.status = 400

C6_FailureIsContained ==
    /\ [][ProcessorRaises => UNCHANGED server]_vars
    /\ []((resp.route = "chat" /\ resp.afterFail /\ ValidChat(resp.req)
             /\ resp.outcome.kind # "raises")
            => (resp.kind = "response" /\ resp.status = 200
                  /\ resp.outcome.kind = "returns"))

C6_Witness ==
    /\ resp.route = "chat"
    /\ resp.afterFail
    /\ resp.status = 200
    /\ runner \in listening

(***************************************************************************)
(* C7.  The processor is called for every valid chat request, with the     *)
(* request's message as content and its session_id, channel and chat_id    *)
(* unmodified, each replaced by its default ("api:default", "api",         *)
(* "default") when the request has no such key.                            *)
(***************************************************************************)
C7_CallArguments ==
    /\ \A c \in BagToSet(inflight) : c.args = ExpectedArgs(c.req)
    /\ (resp.route = "chat" /\ resp.calls > 0) => resp.args = ExpectedArgs(resp.req)
    /\ (resp.route = "chat" /\ ValidChat(resp.req)) => resp.calls > 0

C7_Witness ==
    /\ resp.route = "chat"
    /\ resp.calls = 1
    /\ resp.req.data.session_id = None
    /\ resp.args = [content |-> Str("Hello!"), session_key |-> None,
                    channel |-> Str("voice"), chat_id |-> Str("default")]

(***************************************************************************)
(* C8.  GET /health is answered 200 {"status": "ok"} whatever the state,   *)
(* and handling it changes nothing but the answer: not the gateway, not    *)
(* the suspended chat handlers, and no processor call is made.             *)
(***************************************************************************)
C8_HealthAlwaysOk ==
    /\ [](resp.route = "health" => resp = HealthResult(JsonResponse([status |-> "ok"], 200)))
    /\ [][HandleHealth => (resp'.route = "health" /\ UNCHANGED <<server, inflight, failed>>)]_vars

C8_Witness ==
    /\ resp.route = "health"
    /\ resp.status = 200
    /\ BagCardinality(inflight) > 1
    /\ failed # "never"

(***************************************************************************)
(* C9.  start() on a gateway that is started fails with AlreadyRunning and *)
(* leaves the listener and the runner and site references as they were.    *)
(***************************************************************************)
C9_AlreadyRunning ==
    [][(Start /\ runner \in listening)
          => (startResult' = "AlreadyRunning" /\ UNCHANGED <<runner, site, listening>>)]_vars

(***************************************************************************)
(* C10.  Once a stop() has completed no listener acquired by an earlier    *)
(* start() is held, and stop() on a gateway never started changes nothing. *)
(***************************************************************************)
C10_ReleasedOnStop ==
    [][Stop => (listening' = {} /\ (runner = 0 => UNCHANGED vars))]_vars

====
